---- MODULE Spec2Model ----
(***************************************************************************)
(* The SM-2 spaced-repetition scheduler (SpacedRepetitionSystem) and its   *)
(* review session (ReviewSession) of modules/spaced_repetition.py.         *)
(*                                                                         *)
(* Representation.                                                         *)
(*  - A Python dict is a sequence of entries in insertion order (dicts     *)
(*    iterate in insertion order, and get_due_items relies on it).         *)
(*  - ease_factor is a float in the code; here it is an integer number of  *)
(*    hundredths (2.5 is 250).  Every ease the code computes is a sum of   *)
(*    multiples of 0.01, so the hundredths are exact; what the float       *)
(*    rounding error can change is the result of round(interval * ease)    *)
(*    when the exact product lies on a half: there the build produces      *)
(*    either neighbour (9 * 1.5 gives 13 after one history and 14 after    *)
(*    another), so RoundOutcomes yields both.                              *)
(*  - Time is a count of clock ticks, TicksPerDay ticks to the day.        *)
(*    An ISO date string is the pair <<day, tick of the day>>; None is     *)
(*    the empty tuple.                                                     *)
(***************************************************************************)
EXTENDS Integers, Sequences, FiniteSets, TLC

VARIABLES
    items,          \* SpacedRepetitionSystem.items: sequence of ReviewItem, insertion order
    data_file,      \* SpacedRepetitionSystem.data_file: a file name, "" for None
    disk,           \* content of the data file: a sequence of <<key, dict>>, or NoFile
    now,            \* the value datetime.now() returns, in ticks
    words_data,     \* ReviewSession.words_data: sequence of <<key, word>>
    session_items,  \* ReviewSession.session_items: sequence of word ids (item references)
    current_index,  \* ReviewSession.current_index
    session_stats,  \* ReviewSession.session_stats
    started,        \* TRUE once start_session has been called on the session
    answers,        \* number of submit_answer calls since the last start_session
    other,          \* a second ReviewSession over the same scheduler and vocabulary
    calls,          \* number of operations called so far
    ret             \* the last call: operation, arguments, outcome

vars == <<items, data_file, disk, now, words_data, session_items,
          current_index, session_stats, started, answers, other, calls, ret>>

-----------------------------------------------------------------------------
(* Bounds of the model *)

TicksPerDay == 2
MaxClock == 3
MaxDrift == 1
MaxCalls == 3
MaxSessionCalls == 4
MaxLoadCalls == 1
MaxHistory == 4
MaxQueryCalls == 2
MaxSharedCalls == 4

(* Inputs *)

QualityInputs == {-1, 2, 3, 4, 6}
CapInputs == {0, 1, 2}
HistoryQualities == {2, 4}
WideQualityInputs == -1..6
DamagedFields == {"ease_factor", "interval", "repetitions", "english"}
None == <<>>
NoDataFile == ""
NoFile == <<"absent">>
NoLimit == -1

Word1 == [id |-> "word_001", bashkir |-> "bal", english |-> "honey"]
Word2 == [bashkir |-> "tau", english |-> "mountain"]
Word2b == [id |-> "tau", bashkir |-> "tau", english |-> "hill"]
WordsList == <<Word1, Word2, Word2b>>
VocabularyInputs == {<<>>, WordsList}
WordIds == {"word_001", "word_003"}

-----------------------------------------------------------------------------
(* Program constants *)

MIN_EASE_FACTOR == 130
QUALITY_THRESHOLD == 3
DefaultEase == 250

-----------------------------------------------------------------------------
(* Dates *)

IsoFormat(t) == <<t \div TicksPerDay, t % TicksPerDay>>
FromIsoFormat(s) == s[1] * TicksPerDay + s[2]
TimeDelta_Ticks(days) == days
TimeDelta(days) == days * TicksPerDay

-----------------------------------------------------------------------------
(* ReviewItem and the items dict *)

NewReviewItem(word_id, bashkir, english, next_review) ==
    [word_id |-> word_id, bashkir |-> bashkir, english |-> english,
     ease_factor |-> DefaultEase, interval |-> 0, repetitions |-> 0,
     next_review |-> next_review, last_review |-> None,
     total_reviews |-> 0, correct_count |-> 0, incorrect_count |-> 0]

FieldDefaults == NewReviewItem("", "", "", None)
RequiredFields == {"word_id", "bashkir", "english"}

ToDict(item) == item

FromDictOk(data) ==
    /\ RequiredFields \subseteq DOMAIN data
    /\ DOMAIN data \subseteq DOMAIN FieldDefaults

FromDict(data) ==
    [f \in DOMAIN FieldDefaults |-> IF f \in DOMAIN data THEN data[f] ELSE FieldDefaults[f]]

Keys(its) == {its[i].word_id : i \in 1..Len(its)}
Tracked(its, word_id) == word_id \in Keys(its)
IndexOf(its, word_id) == CHOOSE i \in 1..Len(its) : its[i].word_id = word_id
ItemOf(its, word_id) == its[IndexOf(its, word_id)]
Item(word_id) == ItemOf(items, word_id)

SaveData(its) == [i \in 1..Len(its) |-> <<its[i].word_id, ToDict(its[i])>>]
LoadOk(data) == \A i \in 1..Len(data) : FromDictOk(data[i][2])
LoadData(data) == [i \in 1..Len(data) |-> FromDict(data[i][2])]

Saved(its) == IF data_file # NoDataFile THEN SaveData(its) ELSE disk

-----------------------------------------------------------------------------
(* The vocabulary *)

WordKey(word) == IF "id" \in DOMAIN word THEN word.id ELSE word.bashkir

DictOf_Duplicating(list) == [i \in 1..Len(list) |-> <<WordKey(list[i]), list[i]>>]

RECURSIVE DictOf(_)
DictOf(list) ==
    IF list = <<>> THEN <<>>
    ELSE LET n == Len(list)
             rest == DictOf(SubSeq(list, 1, n - 1))
             k == WordKey(list[n])
         IN IF \E i \in 1..Len(rest) : rest[i][1] = k
            THEN [i \in 1..Len(rest) |-> IF rest[i][1] = k THEN <<k, list[n]>> ELSE rest[i]]
            ELSE Append(rest, <<k, list[n]>>)

DictValues(d) == [i \in 1..Len(d) |-> d[i][2]]

-----------------------------------------------------------------------------
(* SpacedRepetitionSystem.add_word *)

AddWordItems_Reset(its, word_id, bashkir, english, t) ==
    IF ~Tracked(its, word_id)
    THEN Append(its, NewReviewItem(word_id, bashkir, english, IsoFormat(t)))
    ELSE [its EXCEPT ![IndexOf(its, word_id)] =
             NewReviewItem(word_id, bashkir, english, IsoFormat(t))]

AddWordItems(its, word_id, bashkir, english, t) ==
    IF ~Tracked(its, word_id)
    THEN Append(its, NewReviewItem(word_id, bashkir, english, IsoFormat(t)))
    ELSE its

-----------------------------------------------------------------------------
(* SpacedRepetitionSystem.review *)

Clamp_None(quality) == quality

Clamp(quality) ==
    LET lo == IF quality < 5 THEN quality ELSE 5
    IN IF lo > 0 THEN lo ELSE 0

RoundOutcomes(hundredths) ==
    LET k == hundredths \div 100
        r == hundredths % 100
    IN IF r < 50 THEN {k} ELSE IF r > 50 THEN {k + 1} ELSE {k, k + 1}

NewIntervals_KeptOnFailure(item, q) ==
    IF q >= QUALITY_THRESHOLD
    THEN IF item.repetitions = 0 THEN {1}
         ELSE IF item.repetitions = 1 THEN {6}
         ELSE RoundOutcomes(item.interval * item.ease_factor)
    ELSE {item.interval}

NewIntervals_PostEase(item, q) ==
    IF q >= QUALITY_THRESHOLD
    THEN IF item.repetitions = 0 THEN {1}
         ELSE IF item.repetitions = 1 THEN {6}
         ELSE LET e == item.ease_factor + 10 - (5 - q) * (8 + (5 - q) * 2)
              IN RoundOutcomes(item.interval * (IF e > MIN_EASE_FACTOR THEN e ELSE MIN_EASE_FACTOR))
    ELSE {1}

NewIntervals(item, q) ==
    IF q >= QUALITY_THRESHOLD
    THEN IF item.repetitions = 0 THEN {1}
         ELSE IF item.repetitions = 1 THEN {6}
         ELSE RoundOutcomes(item.interval * item.ease_factor)
    ELSE {1}

NewRepetitions_Total(item, q) ==
    IF q >= QUALITY_THRESHOLD THEN item.correct_count + 1 ELSE 0

NewRepetitions_Keep(item, q) ==
    IF q >= QUALITY_THRESHOLD THEN item.repetitions + 1 ELSE item.repetitions

NewRepetitions(item, q) ==
    IF q >= QUALITY_THRESHOLD THEN item.repetitions + 1 ELSE 0

EaseDelta_Flat(q) ==
    IF q >= QUALITY_THRESHOLD THEN 10 - (5 - q) * (8 + (5 - q) * 2) ELSE -20

EaseDelta(q) == 10 - (5 - q) * (8 + (5 - q) * 2)

NewEase_NoFloor(ease_factor, q) == ease_factor + EaseDelta(q)

NewEase(ease_factor, q) ==
    LET e == ease_factor + EaseDelta(q)
    IN IF e > MIN_EASE_FACTOR THEN e ELSE MIN_EASE_FACTOR

\* calculate_next_review(quality, current_ease, current_interval, repetitions):
\* the set of (new_interval, new_ease) pairs it can return.
CalculateNextReview(quality, current_ease, current_interval, repetitions) ==
    IF quality < 3
    THEN {<<1, IF current_ease - 20 > 130 THEN current_ease - 20 ELSE 130>>}
    ELSE LET new_intervals ==
                 IF repetitions = 0 THEN {1}
                 ELSE IF repetitions = 1 THEN {6}
                 ELSE RoundOutcomes(current_interval * current_ease)
             e == current_ease + 10 - (5 - quality) * (8 + (5 - quality) * 2)
             new_ease == IF e > 130 THEN e ELSE 130
         IN {<<new_interval, new_ease>> : new_interval \in new_intervals}

ReviewedItem_Uncounted(item, q, new_interval, t1, t2) ==
    [item EXCEPT
        !.total_reviews = @ + 1,
        !.last_review = IsoFormat(t1),
        !.correct_count = IF q >= QUALITY_THRESHOLD THEN @ + 1 ELSE @,
        !.interval = new_interval,
        !.repetitions = NewRepetitions(item, q),
        !.ease_factor = NewEase(item.ease_factor, q),
        !.next_review = IsoFormat(t2 + TimeDelta(new_interval))]

ReviewedItem(item, q, new_interval, t1, t2) ==
    [item EXCEPT
        !.total_reviews = @ + 1,
        !.last_review = IsoFormat(t1),
        !.correct_count = IF q >= QUALITY_THRESHOLD THEN @ + 1 ELSE @,
        !.incorrect_count = IF q >= QUALITY_THRESHOLD THEN @ ELSE @ + 1,
        !.interval = new_interval,
        !.repetitions = NewRepetitions(item, q),
        !.ease_factor = NewEase(item.ease_factor, q),
        !.next_review = IsoFormat(t2 + TimeDelta(new_interval))]

ReviewItems_OncePerMoment(its, word_id, quality, new_interval, t1, t2) ==
    IF ItemOf(its, word_id).last_review = IsoFormat(t1)
    THEN its
    ELSE [its EXCEPT ![IndexOf(its, word_id)] =
             ReviewedItem(@, Clamp(quality), new_interval, t1, t2)]

ReviewItems(its, word_id, quality, new_interval, t1, t2) ==
    [its EXCEPT ![IndexOf(its, word_id)] =
        ReviewedItem(@, Clamp(quality), new_interval, t1, t2)]

-----------------------------------------------------------------------------
(* SpacedRepetitionSystem.get_due_items and get_new_items *)

DueKey(item, t) ==
    IF item.next_review = None THEN t ELSE FromIsoFormat(item.next_review)

IsDue_Strict(item, t) ==
    IF item.next_review = None THEN TRUE ELSE FromIsoFormat(item.next_review) < t

IsDue(item, t) ==
    IF item.next_review = None THEN TRUE ELSE FromIsoFormat(item.next_review) <= t

RECURSIVE DueEntries(_, _)
DueEntries(its, t) ==
    IF its = <<>> THEN <<>>
    ELSE IF IsDue(its[1], t)
         THEN <<<<its[1].word_id, DueKey(its[1], t)>>>> \o DueEntries(Tail(its), t)
         ELSE DueEntries(Tail(its), t)

InsertByKey(sorted, entry) ==
    LET after == {i \in 1..Len(sorted) : sorted[i][2] > entry[2]}
        pos == IF after = {} THEN Len(sorted) + 1
               ELSE CHOOSE i \in after : \A j \in after : i <= j
    IN SubSeq(sorted, 1, pos - 1) \o <<entry>> \o SubSeq(sorted, pos, Len(sorted))

RECURSIVE SortByKey(_)
SortByKey(entries) ==
    IF entries = <<>> THEN <<>>
    ELSE InsertByKey(SortByKey(SubSeq(entries, 1, Len(entries) - 1)),
                     entries[Len(entries)])

Slice(seq, n) == SubSeq(seq, 1, IF n < Len(seq) THEN n ELSE Len(seq))

GetDueItems(its, t, limit) ==
    LET due == SortByKey(DueEntries(its, t))
        ids == [i \in 1..Len(due) |-> due[i][1]]
    IN IF limit # NoLimit /\ limit # 0 THEN Slice(ids, limit) ELSE ids

RECURSIVE NewItemsLoop(_, _, _, _)
NewItemsLoop(its, words, limit, new_words) ==
    IF words = <<>> THEN new_words
    ELSE IF ~Tracked(its, WordKey(words[1]))
         THEN IF Len(new_words) + 1 >= limit
              THEN Append(new_words, words[1])
              ELSE NewItemsLoop(its, Tail(words), limit, Append(new_words, words[1]))
         ELSE NewItemsLoop(its, Tail(words), limit, new_words)

GetNewItems(its, words, limit) == NewItemsLoop(its, words, limit, <<>>)

-----------------------------------------------------------------------------
(* SpacedRepetitionSystem.get_statistics *)

\* The integers a float division num / den can round to: the nearest one,
\* and either neighbour when the exact quotient lies on a half.
RoundRatio(num, den) ==
    LET k == num \div den
        twice == 2 * (num % den)
    IN IF twice < den THEN {k} ELSE IF twice > den THEN {k + 1} ELSE {k, k + 1}

RECURSIVE SumField(_, _)
SumField(its, field) ==
    IF its = <<>> THEN 0 ELSE its[1][field] + SumField(Tail(its), field)

IsMastered(item) == item.interval >= 21

IsLearning_Overlapping(item) == item.total_reviews > 0

IsLearning(item) == ~IsMastered(item) /\ item.total_reviews > 0

CountedDue(item, t) ==
    item.next_review # None /\ FromIsoFormat(item.next_review) <= t

\* The dicts get_statistics() can return at time t: average_ease in
\* hundredths, retention_rate in tenths of a percent.
GetStatistics(its, t) ==
    IF its = <<>>
    THEN {[total_words |-> 0, mastered |-> 0, learning |-> 0, new |-> 0,
           due_today |-> 0, average_ease |-> 0, retention_rate |-> 0]}
    ELSE LET mastered == Cardinality({i \in 1..Len(its) : IsMastered(its[i])})
             learning == Cardinality({i \in 1..Len(its) : IsLearning(its[i])})
             due_today == Cardinality({i \in 1..Len(its) : CountedDue(its[i], t)})
             total_correct == SumField(its, "correct_count")
             total_reviews == SumField(its, "total_reviews")
             ease_sum == SumField(its, "ease_factor")
         IN {[total_words |-> Len(its), mastered |-> mastered, learning |-> learning,
              new |-> Len(its) - mastered - learning, due_today |-> due_today,
              average_ease |-> e, retention_rate |-> r] :
                e \in RoundRatio(ease_sum, Len(its)),
                r \in IF total_reviews > 0
                      THEN RoundRatio(total_correct * 1000, total_reviews)
                      ELSE {0}}

\* SpacedRepetitionSystem.get_item_status
GetItemStatus(its, word_id) ==
    IF ~Tracked(its, word_id) THEN "unseen"
    ELSE LET item == ItemOf(its, word_id)
         IN IF item.total_reviews = 0 THEN "new"
            ELSE IF item.interval >= 21 THEN "mastered"
            ELSE IF item.interval >= 7 THEN "reviewing"
            ELSE "learning"

-----------------------------------------------------------------------------
(* ReviewSession *)

RECURSIVE AddWords(_, _, _)
AddWords(its, words, t) ==
    IF words = <<>> THEN its
    ELSE AddWords(AddWordItems(its, WordKey(words[1]), words[1].bashkir, words[1].english, t),
                  Tail(words), t)

SessionQueue(its, t, new_words, review_words) ==
    LET due_items == GetDueItems(its, t, review_words)
        new_word_data == GetNewItems(its, DictValues(words_data), new_words)
    IN due_items \o [i \in 1..Len(new_word_data) |-> WordKey(new_word_data[i])]

GetCurrentItem ==
    IF current_index >= Len(session_items) THEN None
    ELSE LET word_id == session_items[current_index + 1]
             known == {i \in 1..Len(words_data) : words_data[i][1] = word_id}
         IN <<word_id,
              IF known # {} THEN words_data[CHOOSE i \in known : TRUE][2]
              ELSE [bashkir |-> Item(word_id).bashkir, english |-> Item(word_id).english]>>

HasItems_Always(queue) == TRUE

HasItems(queue) == Len(queue) > 0

ResetStats_Accumulating(queue) ==
    [session_stats EXCEPT !.total = @ + Len(queue)]

ResetStats(queue) == [total |-> Len(queue), correct |-> 0, incorrect |-> 0]

Advance_Twice(index) == index + 2

Advance_Stuck(index) == index

Advance(index) == index + 1

AnswerStats_Strict(stats, quality) ==
    IF quality > QUALITY_THRESHOLD
    THEN [stats EXCEPT !.correct = @ + 1]
    ELSE [stats EXCEPT !.incorrect = @ + 1]

AnswerStats(stats, quality) ==
    IF quality >= QUALITY_THRESHOLD
    THEN [stats EXCEPT !.correct = @ + 1]
    ELSE [stats EXCEPT !.incorrect = @ + 1]

\* round(correct / current_index * 100, 1), in tenths of a percent.
Accuracy_OfTotal(correct, index) ==
    IF session_stats.total > 0 THEN RoundRatio(correct * 1000, session_stats.total) ELSE {0}

Accuracy(correct, index) ==
    IF index > 0 THEN RoundRatio(correct * 1000, index) ELSE {0}

\* The summaries get_session_summary() can return in the current state.
GetSessionSummary ==
    {[completed |-> current_index,
      remaining |-> Len(session_items) - current_index,
      correct |-> session_stats.correct,
      incorrect |-> session_stats.incorrect,
      accuracy |-> a] : a \in Accuracy(session_stats.correct, current_index)}

-----------------------------------------------------------------------------
(* The last call *)

Call(op, word_id, quality, error, result) ==
    [op |-> op, word_id |-> word_id, quality |-> quality, error |-> error,
     result |-> result]

sessionVars ==
    <<words_data, session_items, current_index, session_stats, started, answers, other>>

\* ReviewSession(srs, words_data), but for the vocabulary.
NewSession ==
    [session_items |-> <<>>, current_index |-> 0,
     session_stats |-> [total |-> 0, correct |-> 0, incorrect |-> 0],
     started |-> FALSE]

-----------------------------------------------------------------------------
(* Construction: SpacedRepetitionSystem(data_file) and ReviewSession(srs, words) *)

StoredFile == <<<<"word_003", [word_id |-> "word_003", bashkir |-> "at", english |-> "horse"]>>>>

Init ==
    /\ \E f \in {<<NoDataFile, NoFile>>, <<"srs.json", StoredFile>>} :
          /\ data_file = f[1]
          /\ disk = f[2]
          /\ items = IF f[1] # NoDataFile /\ f[2] # NoFile THEN LoadData(f[2]) ELSE <<>>
    /\ now = 0
    /\ \E words \in VocabularyInputs : words_data = DictOf(words)
    /\ session_items = <<>>
    /\ current_index = 0
    /\ session_stats = [total |-> 0, correct |-> 0, incorrect |-> 0]
    /\ started = FALSE
    /\ answers = 0
    /\ other = NewSession
    /\ calls = 0
    /\ ret = Call("init", "", 0, "", None)

-----------------------------------------------------------------------------
(* Actions *)

Called == calls' = calls + 1

AddWord(word_id, bashkir, english) ==
    /\ Called
    /\ items' = AddWordItems(items, word_id, bashkir, english, now)
    /\ ret' = Call("add_word", word_id, 0, "", ItemOf(items', word_id))
    /\ UNCHANGED <<data_file, disk, now, sessionVars>>

UnknownWord_Creates(op, word_id, quality) ==
    /\ items' = Append(items, NewReviewItem(word_id, "", "", IsoFormat(now)))
    /\ ret' = Call(op, word_id, quality, "", None)
    /\ UNCHANGED <<data_file, disk, now>>

UnknownWord(op, word_id, quality) ==
    /\ ret' = Call(op, word_id, quality, "ValueError", None)
    /\ UNCHANGED <<items, data_file, disk, now>>

Review(word_id, quality, drift) ==
    /\ Called
    /\ now + drift <= MaxClock
    /\ IF ~Tracked(items, word_id)
       THEN UnknownWord("review", word_id, quality) /\ UNCHANGED sessionVars
       ELSE \E new_interval \in NewIntervals(Item(word_id), Clamp(quality)) :
            /\ items' = ReviewItems(items, word_id, quality, new_interval, now, now + drift)
            /\ now' = now + drift
            /\ disk' = Saved(items')
            /\ ret' = Call("review", word_id, quality, "",
                           <<ItemOf(items', word_id).interval,
                             ItemOf(items', word_id).ease_factor,
                             ItemOf(items', word_id).next_review>>)
            /\ UNCHANGED <<data_file, sessionVars>>

StartSession(new_words, review_words, drift) ==
    /\ Called
    /\ now + drift <= MaxClock
    /\ LET new_word_data == GetNewItems(items, DictValues(words_data), new_words)
       IN /\ session_items' = SessionQueue(items, now, new_words, review_words)
          /\ items' = AddWords(items, new_word_data, now + drift)
    /\ current_index' = 0
    /\ session_stats' = ResetStats(session_items')
    /\ now' = now + drift
    /\ started' = TRUE
    /\ answers' = 0
    /\ ret' = Call("start_session", "", 0, "", HasItems(session_items'))
    /\ UNCHANGED <<data_file, disk, words_data, other>>

NoMoreItems_Advancing(quality) ==
    /\ ret' = Call("submit_answer", "", quality, "No more items", None)
    /\ current_index' = current_index + 1
    /\ UNCHANGED <<items, data_file, disk, now, words_data, session_items,
                   session_stats, started>>

NoMoreItems(quality) ==
    /\ ret' = Call("submit_answer", "", quality, "No more items", None)
    /\ UNCHANGED <<items, data_file, disk, now, words_data, session_items,
                   current_index, session_stats, started>>

SubmitAnswer(quality, drift) ==
    /\ Called
    /\ now + drift <= MaxClock
    /\ answers' = answers + 1
    /\ other' = other
    /\ IF current_index >= Len(session_items)
       THEN NoMoreItems(quality)
       ELSE LET word_id == session_items[current_index + 1]
            IN IF ~Tracked(items, word_id)
               THEN /\ UnknownWord("submit_answer", word_id, quality)
                    /\ UNCHANGED <<words_data, session_items, current_index,
                                   session_stats, started>>
               ELSE
               /\ \E new_interval \in NewIntervals(Item(word_id), Clamp(quality)) :
                     /\ items' = ReviewItems(items, word_id, quality, new_interval,
                                             now, now + drift)
                     /\ ret' = Call("submit_answer", word_id, quality, "",
                                    <<IF quality >= QUALITY_THRESHOLD
                                      THEN "correct" ELSE "incorrect",
                                      ItemOf(items', word_id).interval,
                                      ItemOf(items', word_id).ease_factor,
                                      ItemOf(items', word_id).next_review,
                                      <<Advance(current_index), Len(session_items)>> >>)
               /\ now' = now + drift
               /\ disk' = Saved(items')
               /\ session_stats' = AnswerStats(session_stats, quality)
               /\ current_index' = Advance(current_index)
               /\ UNCHANGED <<data_file, words_data, session_items, started>>

AdvanceClock(d) ==
    /\ now + d <= MaxClock
    /\ now' = now + d
    /\ ret' = Call("sleep", "", 0, "", None)
    /\ UNCHANGED <<items, data_file, disk, sessionVars, calls>>

Next ==
    \/ calls < MaxCalls /\ \E w \in WordIds : AddWord(w, "at", "horse")
    \/ calls < MaxCalls /\
          \E w \in WordIds, q \in QualityInputs, d \in 0..MaxDrift : Review(w, q, d)
    \/ calls < MaxCalls /\
          \E n \in CapInputs, r \in CapInputs, d \in 0..MaxDrift : StartSession(n, r, d)
    \/ calls < MaxCalls /\
          \E q \in QualityInputs, d \in 0..MaxDrift : SubmitAnswer(q, d)
    \/ AdvanceClock(TicksPerDay)

Spec == Init /\ [][Next]_vars

-----------------------------------------------------------------------------
(* A caller that only studies: start_session and submit_answer, for one call
   more than Spec allows, so that a queue of three items is answered through *)

NextSession ==
    \/ calls < MaxSessionCalls /\
          \E n \in CapInputs, r \in CapInputs, d \in 0..MaxDrift : StartSession(n, r, d)
    \/ calls < MaxSessionCalls /\
          \E q \in QualityInputs, d \in 0..MaxDrift : SubmitAnswer(q, d)

SpecSession == Init /\ [][NextSession]_vars

-----------------------------------------------------------------------------
(* Two sessions over one fresh scheduler, each started once, their calls
   interleaved *)

\* start_session on the second session.
StartOther(new_words, review_words, drift) ==
    /\ Called
    /\ now + drift <= MaxClock
    /\ LET queue == SessionQueue(items, now, new_words, review_words)
       IN other' = [session_items |-> queue, current_index |-> 0,
                    session_stats |-> ResetStats(queue), started |-> TRUE]
    /\ items' = AddWords(items, GetNewItems(items, DictValues(words_data), new_words),
                         now + drift)
    /\ now' = now + drift
    /\ ret' = Call("start_session", "", 0, "", HasItems(other'.session_items))
    /\ UNCHANGED <<data_file, disk, words_data, session_items, current_index,
                   session_stats, started, answers>>

\* submit_answer on the second session.
SubmitOther(quality, drift) ==
    /\ Called
    /\ now + drift <= MaxClock
    /\ IF other.current_index >= Len(other.session_items)
       THEN /\ ret' = Call("submit_answer", "", quality, "No more items", None)
            /\ UNCHANGED <<items, disk, now, other>>
       ELSE LET word_id == other.session_items[other.current_index + 1]
            IN IF ~Tracked(items, word_id)
               THEN UnknownWord("submit_answer", word_id, quality) /\ other' = other
               ELSE
               /\ \E new_interval \in NewIntervals(Item(word_id), Clamp(quality)) :
                     /\ items' = ReviewItems(items, word_id, quality, new_interval,
                                             now, now + drift)
                     /\ ret' = Call("submit_answer", word_id, quality, "",
                                    <<IF quality >= QUALITY_THRESHOLD
                                      THEN "correct" ELSE "incorrect",
                                      ItemOf(items', word_id).interval,
                                      ItemOf(items', word_id).ease_factor,
                                      ItemOf(items', word_id).next_review,
                                      <<Advance(other.current_index),
                                        Len(other.session_items)>> >>)
               /\ now' = now + drift
               /\ disk' = Saved(items')
               /\ other' = [other EXCEPT
                               !.session_stats = AnswerStats(@, quality),
                               !.current_index = Advance(@)]
    /\ UNCHANGED <<data_file, words_data, session_items, current_index,
                   session_stats, started, answers>>

InitShared == Init /\ data_file = NoDataFile

NextShared ==
    \/ calls < MaxSharedCalls /\ ~started /\
          \E n \in CapInputs, r \in CapInputs, d \in 0..MaxDrift : StartSession(n, r, d)
    \/ calls < MaxSharedCalls /\
          \E q \in QualityInputs, d \in 0..MaxDrift : SubmitAnswer(q, d)
    \/ calls < MaxSharedCalls /\ ~other.started /\
          \E n \in CapInputs, r \in CapInputs, d \in 0..MaxDrift : StartOther(n, r, d)
    \/ calls < MaxSharedCalls /\
          \E q \in QualityInputs, d \in 0..MaxDrift : SubmitOther(q, d)

SpecShared == InitShared /\ [][NextShared]_vars

-----------------------------------------------------------------------------
(* The operations of Spec together with the queries, called at any moment *)

Query_Advancing(op, word_id, limit, result) ==
    /\ ret' = Call(op, word_id, limit, "", result)
    /\ current_index' = current_index + 1
    /\ UNCHANGED <<items, data_file, disk, now, calls, words_data, session_items,
                   session_stats, started, answers, other>>

\* A method that assigns to no attribute: it only returns.
Query(op, word_id, limit, result) ==
    /\ ret' = Call(op, word_id, limit, "", result)
    /\ UNCHANGED <<items, data_file, disk, now, sessionVars, calls>>

GetDueItemsCall(limit) ==
    Query("get_due_items", "", limit, GetDueItems(items, now, limit))

GetNewItemsCall(limit) ==
    Query("get_new_items", "", limit, GetNewItems(items, WordsList, limit))

GetStatisticsCall ==
    \E stats \in GetStatistics(items, now) : Query("get_statistics", "", 0, stats)

GetItemStatusCall(word_id) ==
    Query("get_item_status", word_id, 0, GetItemStatus(items, word_id))

GetCurrentItemCall == Query("get_current_item", "", 0, GetCurrentItem)

GetSessionSummaryCall ==
    \E summary \in GetSessionSummary : Query("get_session_summary", "", 0, summary)

NextQueries ==
    \/ calls < MaxQueryCalls /\ \E w \in WordIds : AddWord(w, "at", "horse")
    \/ calls < MaxQueryCalls /\
          \E w \in WordIds, q \in QualityInputs, d \in 0..MaxDrift : Review(w, q, d)
    \/ calls < MaxQueryCalls /\
          \E n \in CapInputs, r \in CapInputs, d \in 0..MaxDrift : StartSession(n, r, d)
    \/ calls < MaxQueryCalls /\
          \E q \in QualityInputs, d \in 0..MaxDrift : SubmitAnswer(q, d)
    \/ AdvanceClock(TicksPerDay)
    \/ \E limit \in CapInputs \cup {NoLimit} : GetDueItemsCall(limit)
    \/ \E limit \in CapInputs : GetNewItemsCall(limit)
    \/ GetStatisticsCall
    \/ \E w \in WordIds : GetItemStatusCall(w)
    \/ GetCurrentItemCall
    \/ GetSessionSummaryCall

SpecQueries == Init /\ [][NextQueries]_vars

-----------------------------------------------------------------------------
(* A scheduler constructed over the data file an earlier run left behind *)

\* The states of an item after at most n reviews, all made at tick 0.
RECURSIVE Practised(_, _)
Practised(item, n) ==
    IF n = 0 THEN {item}
    ELSE {item} \cup
         UNION {UNION {Practised(ReviewedItem(item, q, new_interval, 0, 0), n - 1) :
                          new_interval \in NewIntervals(item, q)} :
                   q \in HistoryQualities}

\* What save() wrote for a scheduler that tracked word_001 alone.
SavedFiles ==
    {SaveData(<<item>>) :
        item \in Practised(NewReviewItem("word_001", "bal", "honey", IsoFormat(0)),
                           MaxHistory)}

Without(data, field) == [f \in DOMAIN data \ {field} |-> data[f]]

\* The same files with one field missing from the record.
DamagedFiles ==
    {[i \in 1..Len(file) |-> <<file[i][1], Without(file[i][2], field)>>] :
        file \in SavedFiles, field \in DamagedFields}

\* A complete record of an item that was never scheduled.
NeverScheduledFile == SaveData(<<NewReviewItem("word_003", "at", "horse", None)>>)

DataFiles == SavedFiles \cup DamagedFiles \cup {StoredFile, NeverScheduledFile, <<>>}

InitLoad ==
    /\ data_file = "srs.json"
    /\ disk \in DataFiles
    /\ items = <<>>
    /\ now = 0
    /\ words_data = DictOf(WordsList)
    /\ session_items = <<>>
    /\ current_index = 0
    /\ session_stats = [total |-> 0, correct |-> 0, incorrect |-> 0]
    /\ started = FALSE
    /\ answers = 0
    /\ other = NewSession
    /\ calls = 0
    /\ ret = Call("new", "", 0, "", None)

\* SpacedRepetitionSystem(data_file): __init__ calls load().
Load ==
    /\ ret.op = "new"
    /\ IF LoadOk(disk)
       THEN /\ items' = LoadData(disk)
            /\ ret' = Call("load", "", 0, "", None)
       ELSE /\ items' = items
            /\ ret' = Call("load", "", 0, "TypeError", None)
    /\ UNCHANGED <<data_file, disk, now, sessionVars, calls>>

Constructed == ret.op # "new" /\ ~(ret.op = "load" /\ ret.error # "")

NextLoad ==
    \/ Load
    \/ Constructed /\ calls < MaxLoadCalls /\ \E w \in WordIds : AddWord(w, "at", "horse")
    \/ Constructed /\ calls < MaxLoadCalls /\
          \E w \in WordIds, q \in WideQualityInputs, d \in 0..MaxDrift : Review(w, q, d)
    \/ Constructed /\ calls < MaxLoadCalls /\
          \E n \in CapInputs, r \in CapInputs, d \in 0..MaxDrift : StartSession(n, r, d)
    \/ Constructed /\ calls < MaxLoadCalls /\
          \E q \in QualityInputs, d \in 0..MaxDrift : SubmitAnswer(q, d)
    \/ Constructed /\ AdvanceClock(TicksPerDay)

SpecLoad == InitLoad /\ [][NextLoad]_vars

\* The same, over the files save() wrote: every item was created by add_word
\* and changed by review() alone.
InitSaved == InitLoad /\ disk \in SavedFiles \cup {<<>>}

SpecSaved == InitSaved /\ [][NextLoad]_vars

-----------------------------------------------------------------------------
(* Properties *)

ReviewOps == {"review", "submit_answer"}

\* The step is a call of review (directly or through submit_answer) that
\* reached a tracked item.
Reviewed == calls' # calls /\ ret'.op \in ReviewOps /\ ret'.error = ""

\* C1: after every review() call, whatever the sequence of quality ratings,
\* every tracked item has ease_factor >= 1.3.
C1_EaseFloor == \A i \in 1..Len(items) : items[i].ease_factor >= 130

C1_Witness ==
    \E i \in 1..Len(items) :
        items[i].ease_factor = 130 /\ items[i].incorrect_count >= 2

\* C2: for every tracked item, total_reviews = correct_count + incorrect_count
\* after every call of add_item, review and the session operations.
C2_CounterConsistency ==
    \A i \in 1..Len(items) :
        items[i].total_reviews = items[i].correct_count + items[i].incorrect_count

C2_Witness ==
    \E i \in 1..Len(items) :
        items[i].correct_count >= 1 /\ items[i].incorrect_count >= 1

\* C3: a successful review sets the interval to 1 when repetitions was 0, to
\* 6 when it was 1, and otherwise to round(previous interval * ease factor
\* before this review's ease update); a fresh item's first three consecutive
\* successes give 1, 6 and round(6 * ease after the second review).
Nearest(n, hundredths) == 100 * n - hundredths \in -50..50

C3_SuccessInterval ==
    [][Reviewed /\ ret'.quality >= 3 =>
        LET old == ItemOf(items, ret'.word_id)
            new == ItemOf(items', ret'.word_id)
        IN /\ old.repetitions = 0 => new.interval = 1
           /\ old.repetitions = 1 => new.interval = 6
           /\ old.repetitions >= 2 =>
                  Nearest(new.interval, old.interval * old.ease_factor)
           /\ old.incorrect_count = 0 =>
                  /\ old.total_reviews = 0 => new.interval = 1
                  /\ old.total_reviews = 1 => new.interval = 6
                  /\ old.total_reviews = 2 =>
                         Nearest(new.interval, 6 * old.ease_factor)]_vars

C3_Witness ==
    /\ ret.op \in ReviewOps /\ ret.error = "" /\ ret.quality >= 3
    /\ Item(ret.word_id).correct_count = 3
    /\ Item(ret.word_id).repetitions = 3
    /\ Item(ret.word_id).interval = 16

\* C4: a review with quality < 3 leaves the item with repetitions = 0 and
\* interval = 1, whatever its repetitions, interval and ease factor were.
C4_FailureResets ==
    (ret.op \in ReviewOps /\ ret.error = "" /\ ret.quality < 3) =>
        /\ Item(ret.word_id).repetitions = 0
        /\ Item(ret.word_id).interval = 1

C4_Witness ==
    /\ ret.op \in ReviewOps /\ ret.error = "" /\ ret.quality < 3
    /\ Item(ret.word_id).correct_count >= 2
    /\ Item(ret.word_id).repetitions = 0
    /\ Item(ret.word_id).interval = 1

\* C5: at every clock value get_due_items() without a limit returns exactly
\* the tracked items whose next_review is null or not after now, each once.
NotAfterNow(date) ==
    \/ date[1] < now \div TicksPerDay
    \/ date[1] = now \div TicksPerDay /\ date[2] <= now % TicksPerDay

DueNow(item) == item.next_review = <<>> \/ NotAfterNow(item.next_review)

C5_DueSet ==
    LET due == GetDueItems(items, now, NoLimit)
    IN /\ \A i \in 1..Len(items) :
              DueNow(items[i]) <=> \E j \in 1..Len(due) : due[j] = items[i].word_id
       /\ \A j \in 1..Len(due) : Tracked(items, due[j])
       /\ \A j, k \in 1..Len(due) : due[j] = due[k] => j = k

C5_Witness ==
    LET due == GetDueItems(items, now, NoLimit)
    IN \E a, b, c \in 1..Len(items) :
          /\ items[a].next_review = <<>>
          /\ items[b].next_review # <<>> /\ FromIsoFormat(items[b].next_review) < now
          /\ items[c].next_review # <<>> /\ FromIsoFormat(items[c].next_review) > now
          /\ Len(due) = 2
          /\ {due[1], due[2]} = {items[a].word_id, items[b].word_id}

\* C6: add_item with an id that is already tracked returns the existing item
\* and changes neither the tracked set nor any field of any item.
C6_IdempotentAdd ==
    [][(calls' # calls /\ ret'.op = "add_word" /\ Tracked(items, ret'.word_id)) =>
          /\ items' = items
          /\ ret'.result = ItemOf(items, ret'.word_id)]_vars

C6_Witness ==
    /\ ret.op = "add_word"
    /\ ret.result.total_reviews >= 1
    /\ ret.result = Item(ret.word_id)
    /\ ret.result.ease_factor # 250

\* C7: review() with an id that is not tracked fails with an error, creates
\* no item and leaves every tracked item as it was.
C7_UnknownItem ==
    [][(calls' # calls /\ ret'.op = "review" /\ ~Tracked(items, ret'.word_id)) =>
          /\ ret'.error = "ValueError"
          /\ items' = items]_vars

C7_Witness ==
    /\ ret.op = "review" /\ ret.error = "ValueError"
    /\ ~Tracked(items, ret.word_id)
    /\ Len(items) >= 1

\* C8: review(id, q) on a tracked item accepts every integer q and leaves the
\* item in the state review(id, max(0, min(5, q))) leaves it in.
InRange(q) == IF q < 0 THEN 0 ELSE IF q > 5 THEN 5 ELSE q

C8_ClampedQuality ==
    [][(calls' # calls /\ ret'.op \in ReviewOps /\ Tracked(items, ret'.word_id)) =>
          LET old == ItemOf(items, ret'.word_id)
              new == ItemOf(items', ret'.word_id)
          IN /\ ret'.error = ""
             /\ new.interval \in NewIntervals(old, InRange(ret'.quality))
             /\ new = ReviewedItem(old, InRange(ret'.quality), new.interval, now, now')]_vars

C8_Witness ==
    /\ ret.op \in ReviewOps /\ ret.error = "" /\ ret.quality < 0
    /\ Item(ret.word_id).total_reviews = 2
    /\ Item(ret.word_id).correct_count = 1
    /\ Item(ret.word_id).ease_factor = 180

\* C9: in a session with a queue of n items get_current_item() returns the
\* item at position k after k submit_answer calls for every k < n, and none
\* once submit_answer has been called n times.
C9_SessionExhaustion ==
    started =>
        /\ answers < Len(session_items) =>
              /\ GetCurrentItem # <<>>
              /\ GetCurrentItem[1] = session_items[answers + 1]
        /\ answers >= Len(session_items) => GetCurrentItem = <<>>

C9_Witness ==
    /\ started
    /\ Len(session_items) >= 2
    /\ answers = Len(session_items)
    /\ GetCurrentItem = <<>>

\* C10: submit_answer on a session that is not in progress returns an error
\* and changes neither the cursor, nor the session stats, nor the queue, nor
\* any item of the scheduler.
C10_NotInProgress ==
    [][(calls' # calls /\ ret'.op = "submit_answer"
            /\ current_index >= Len(session_items)) =>
          /\ ret'.error = "No more items"
          /\ UNCHANGED <<items, disk, session_items, current_index, session_stats>>]_vars

C10_Witness ==
    /\ ret.op = "submit_answer" /\ ret.error = "No more items"
    /\ started
    /\ current_index = Len(session_items)
    /\ current_index >= 1
    /\ session_stats.correct + session_stats.incorrect = current_index

\* C11: every call start_session(new_words = n, review_words = r) with n >= 0
\* and r >= 0 leaves a queue made of at most r items that were due before the
\* call, followed by at most n vocabulary entries that were untracked before
\* the call, each of which is tracked afterwards.
InVocabulary(word_id) == \E i \in 1..Len(words_data) : words_data[i][1] = word_id

C11_QueueWithinCaps ==
    [][\A n \in CapInputs, r \in CapInputs, d \in 0..MaxDrift :
          StartSession(n, r, d) =>
              \E k \in 0..Len(session_items') :
                 /\ k <= r
                 /\ Len(session_items') - k <= n
                 /\ \A j \in 1..k :
                       /\ Tracked(items, session_items'[j])
                       /\ DueNow(ItemOf(items, session_items'[j]))
                 /\ \A j \in (k + 1)..Len(session_items') :
                       /\ ~Tracked(items, session_items'[j])
                       /\ InVocabulary(session_items'[j])
                       /\ Tracked(items', session_items'[j])]_vars

\* C12: start_session returns true exactly when the queue it built is not
\* empty; when nothing was due and no vocabulary entry was untracked it
\* returns False, get_current_item() returns none and get_session_summary()
\* returns completed 0, remaining 0, correct 0, incorrect 0, accuracy 0.
NothingToStudy ==
    /\ \A i \in 1..Len(items) : ~DueNow(items[i])
    /\ \A i \in 1..Len(words_data) : Tracked(items, words_data[i][1])

C12_HasItems ==
    [][(calls' # calls /\ ret'.op = "start_session") =>
          /\ ret'.result = (session_items' # <<>>)
          /\ NothingToStudy =>
                /\ ret'.result = FALSE
                /\ GetCurrentItem' = <<>>
                /\ GetSessionSummary' =
                      {[completed |-> 0, remaining |-> 0, correct |-> 0,
                        incorrect |-> 0, accuracy |-> 0]}]_vars

C12_Witness ==
    /\ ret.op = "start_session" /\ ret.result = FALSE
    /\ session_items = <<>>
    /\ Len(items) >= 1
    /\ \A i \in 1..Len(items) : items[i].total_reviews >= 1

\* C13: for every limit >= 0, get_due_items(limit) returns exactly the first
\* min(limit, number of due items) of the due items sorted ascending by
\* effective due timestamp (null next_review counted as now), and never more
\* than limit items.
LimitInputs == 0..3

Min(a, b) == IF a < b THEN a ELSE b

C13_DueLimit ==
    \A limit \in LimitInputs :
        LET all == GetDueItems(items, now, NoLimit)
            got == GetDueItems(items, now, limit)
        IN /\ \A j, k \in 1..Len(all) :
                 j < k => DueKey(ItemOf(items, all[j]), now) <= DueKey(ItemOf(items, all[k]), now)
           /\ got = SubSeq(all, 1, Min(limit, Len(all)))
           /\ Len(got) <= limit

\* C14: for every vocabulary list and every limit >= 0, get_new_items returns
\* exactly the first min(limit, number of untracked entries) entries whose id
\* is not tracked, in the vocabulary's own order, and never more than limit.
RECURSIVE Untracked(_)
Untracked(words) ==
    IF words = <<>> THEN <<>>
    ELSE IF Tracked(items, WordKey(words[1]))
         THEN Untracked(Tail(words))
         ELSE <<words[1]>> \o Untracked(Tail(words))

C14_NewLimit ==
    \A words \in VocabularyInputs \cup {DictValues(words_data)}, limit \in LimitInputs :
        LET got == GetNewItems(items, words, limit)
        IN /\ got = SubSeq(Untracked(words), 1, Min(limit, Len(Untracked(words))))
           /\ Len(got) <= limit

\* C15: start_session on a session that was already started discards the
\* previous queue, cursor and stats: afterwards the cursor is 0, the stats
\* are total = length of the new queue, correct = 0, incorrect = 0, and the
\* queue holds, each once, only items due now and vocabulary entries that
\* were untracked, whatever the old queue held.
C15_Restart ==
    [][(calls' # calls /\ ret'.op = "start_session" /\ started) =>
          /\ current_index' = 0
          /\ session_stats' =
                [total |-> Len(session_items'), correct |-> 0, incorrect |-> 0]
          /\ \A j \in 1..Len(session_items') :
                \/ /\ Tracked(items, session_items'[j])
                   /\ DueNow(ItemOf(items, session_items'[j]))
                \/ /\ ~Tracked(items, session_items'[j])
                   /\ InVocabulary(session_items'[j])
          /\ \A j, k \in 1..Len(session_items') :
                session_items'[j] = session_items'[k] => j = k]_vars

\* The item word_001 carries the vocabulary's text, so an earlier
\* start_session added it; it was answered since, and this start_session
\* left it out of the new queue.
C15_Witness ==
    /\ ret.op = "start_session"
    /\ Tracked(items, "word_001")
    /\ Item("word_001").bashkir = "bal"
    /\ Item("word_001").total_reviews = 1
    /\ session_items = <<"tau">>
    /\ current_index = 0
    /\ session_stats = [total |-> 1, correct |-> 0, incorrect |-> 0]

\* C16: for every integer quality passed to submit_answer, in 0..5 or not,
\* the session counts the answer as correct exactly when the scheduler
\* incremented the item's correct_count and as incorrect exactly when it
\* incremented the item's incorrect_count.
C16_SameOutcome ==
    [][(calls' # calls /\ ret'.op = "submit_answer" /\ ret'.error = "") =>
          LET old == ItemOf(items, ret'.word_id)
              new == ItemOf(items', ret'.word_id)
              correct == session_stats'.correct - session_stats.correct
              incorrect == session_stats'.incorrect - session_stats.incorrect
          IN /\ correct \in {0, 1}
             /\ correct + incorrect = 1
             /\ correct = new.correct_count - old.correct_count
             /\ incorrect = new.incorrect_count - old.incorrect_count
             /\ ret'.result[1] = IF correct = 1 THEN "correct" ELSE "incorrect"]_vars

C16_Witness ==
    /\ ret.op = "submit_answer" /\ ret.error = "" /\ ret.quality < 0
    /\ ret.result[1] = "incorrect"
    /\ Item(ret.word_id).incorrect_count = 1
    /\ session_stats.incorrect = 1
    /\ session_stats.correct = 1
    /\ \E i \in 1..Len(items) :
          items[i].correct_count = 1 /\ items[i].ease_factor = 260

\* C17: in every state get_statistics().due_today equals the number of items
\* due by the due rule (next_review null or not after now), which is the
\* length of get_due_items() without a limit at the same instant.
C17_DueToday ==
    \A stats \in GetStatistics(items, now) :
        /\ stats.due_today = Cardinality({i \in 1..Len(items) : DueNow(items[i])})
        /\ stats.due_today = Len(GetDueItems(items, now, NoLimit))

\* C18: get_statistics() returns in every state, also with nothing tracked
\* and with nothing reviewed: retention_rate is 0 when no review was made,
\* average_ease is 0 when nothing is tracked, and mastered (interval >= 21),
\* learning (reviewed, not mastered) and new (no review) count the tracked
\* items and add up to total_words.
C18_Statistics ==
    /\ GetStatistics(items, now) # {}
    /\ \A stats \in GetStatistics(items, now) :
          /\ (\A i \in 1..Len(items) : items[i].total_reviews = 0) =>
                 stats.retention_rate = 0
          /\ items = <<>> => stats.average_ease = 0
          /\ stats.total_words = Len(items)
          /\ stats.mastered =
                 Cardinality({i \in 1..Len(items) : items[i].interval >= 21})
          /\ stats.learning =
                 Cardinality({i \in 1..Len(items) :
                                 items[i].total_reviews > 0 /\ items[i].interval < 21})
          /\ stats["new"] =
                 Cardinality({i \in 1..Len(items) : items[i].total_reviews = 0})
          /\ stats.mastered + stats.learning + stats["new"] = stats.total_words

C18_Witness ==
    \E stats \in GetStatistics(items, now) :
        /\ stats.total_words = 2
        /\ stats.mastered = 1
        /\ stats["new"] = 1
        /\ stats.retention_rate = 1000
        /\ stats.average_ease = 250

\* C19 as stated: get_session_summary() returns at any point, with
\* completed = cursor, remaining = queue length - cursor, and accuracy
\* exactly correct / completed * 100 when completed > 0, 0 otherwise.
C19_ExactAccuracy ==
    /\ GetSessionSummary # {}
    /\ \A summary \in GetSessionSummary :
          /\ summary.completed = current_index
          /\ summary.remaining = Len(session_items) - current_index
          /\ current_index > 0 =>
                 summary.accuracy * current_index = session_stats.correct * 1000
          /\ current_index = 0 => summary.accuracy = 0

\* C19 amended: as above, with accuracy being correct / completed * 100
\* rounded to one decimal place (33.3 for one correct answer out of three).
C19_RoundedAccuracy ==
    /\ GetSessionSummary # {}
    /\ \A summary \in GetSessionSummary :
          /\ summary.completed = current_index
          /\ summary.remaining = Len(session_items) - current_index
          /\ current_index > 0 =>
                 2 * (summary.accuracy * current_index - session_stats.correct * 1000)
                     \in (-current_index)..current_index
          /\ current_index = 0 => summary.accuracy = 0

C19_Witness ==
    /\ started
    /\ current_index = 3
    /\ session_stats.correct = 2
    /\ GetSessionSummary =
          {[completed |-> 3, remaining |-> 0, correct |-> 2, incorrect |-> 1,
            accuracy |-> 667]}

\* C20: load() of a data file in which a record lacks a scheduling field
\* fails for that item and reports it; it never constructs the item with a
\* default in place of the missing field.
SchedulingFields == {"ease_factor", "interval", "repetitions"}

C20_NoDefaultOnLoad ==
    ret.op = "load" =>
        \A i \in 1..Len(disk) :
            ~(SchedulingFields \subseteq DOMAIN disk[i][2]) =>
                /\ ret.error # ""
                /\ ~Tracked(items, disk[i][1])

\* C21: every tracked item that has been reviewed has next_review equal to
\* last_review plus its interval in days, also when the clock advances
\* during the review() call.
C21_NextFromLast ==
    \A i \in 1..Len(items) :
        (items[i].last_review # <<>> /\ items[i].next_review # <<>>) =>
            FromIsoFormat(items[i].next_review) =
                FromIsoFormat(items[i].last_review) + items[i].interval * TicksPerDay

\* C22: after any sequence of reviews of an item, repetitions is the number
\* of consecutive successful reviews (clamped quality >= 3) since its most
\* recent failed review, or since its creation if it never failed.  Stated
\* step by step: an item enters the scheduler with repetitions 0, a
\* successful review adds one, a failed review resets it to 0, and no other
\* step changes it.
C22_Streak ==
    [][ret'.op # "load" =>
         \A i \in 1..Len(items') :
            LET new == items'[i]
                w == new.word_id
            IN IF ~Tracked(items, w) THEN new.repetitions = 0
               ELSE IF Reviewed /\ ret'.word_id = w
                    THEN IF InRange(ret'.quality) >= 3
                         THEN new.repetitions = ItemOf(items, w).repetitions + 1
                         ELSE new.repetitions = 0
                    ELSE new.repetitions = ItemOf(items, w).repetitions]_vars

C22_Witness ==
    /\ ret.op = "review" /\ ret.error = "" /\ ret.quality >= 3
    /\ Item(ret.word_id).incorrect_count = 1
    /\ Item(ret.word_id).correct_count = 4
    /\ Item(ret.word_id).repetitions = 3

\* C23: every review(), successful or failed, sets ease_factor to
\* max(1.3, e + d(q)) for the ease e before the call and the clamped quality
\* q, where d(5) = +0.10, d(4) = 0, d(3) = -0.14, d(2) = -0.32, d(1) = -0.54
\* and d(0) = -0.80; a failed review never raises the ease.
C23_EaseUpdate ==
    [][Reviewed =>
         LET q == InRange(ret'.quality)
             e == ItemOf(items, ret'.word_id).ease_factor
             d == CASE q = 5 -> 10 [] q = 4 -> 0 [] q = 3 -> -14
                    [] q = 2 -> -32 [] q = 1 -> -54 [] q = 0 -> -80
             new == ItemOf(items', ret'.word_id).ease_factor
         IN /\ new = IF e + d > 130 THEN e + d ELSE 130
            /\ q < 3 => new <= e]_vars

C23_Witness ==
    /\ ret.op = "review" /\ ret.error = "" /\ ret.quality = 1
    /\ Item(ret.word_id).total_reviews = 2
    /\ Item(ret.word_id).correct_count = 1
    /\ Item(ret.word_id).ease_factor = 196

\* C27: every item created by add_word and changed only by review() has
\* interval >= 0; interval = 0 only with repetitions = 0 and no review made;
\* interval >= 1 after any review; interval = 1 when repetitions = 1 and
\* interval = 6 when repetitions = 2, so interval >= 21 needs repetitions >= 3.
C27_Intervals ==
    \A i \in 1..Len(items) :
        /\ items[i].interval >= 0
        /\ items[i].interval = 0 =>
               items[i].repetitions = 0 /\ items[i].total_reviews = 0
        /\ items[i].total_reviews >= 1 => items[i].interval >= 1
        /\ items[i].repetitions = 1 => items[i].interval = 1
        /\ items[i].repetitions = 2 => items[i].interval = 6
        /\ items[i].interval >= 21 => items[i].repetitions >= 3

C27_Witness ==
    \E i \in 1..Len(items) :
        /\ items[i].interval >= 21
        /\ items[i].repetitions = 5
        /\ items[i].incorrect_count = 0

\* C24: only review() changes the fields of an existing item: get_due_items,
\* get_new_items, get_statistics, get_item_status, get_current_item and
\* get_session_summary leave the tracked set, every item field and the
\* session cursor unchanged, and start_session changes the scheduler only by
\* adding previously untracked items with default values.
QueryOps ==
    {"get_due_items", "get_new_items", "get_statistics", "get_item_status",
     "get_current_item", "get_session_summary"}

C24_Frame ==
    [][/\ ret'.op \in QueryOps => items' = items /\ current_index' = current_index
       /\ ~Reviewed =>
             /\ Len(items') >= Len(items)
             /\ \A i \in 1..Len(items) : items'[i] = items[i]
       /\ ret'.op = "start_session" =>
             \A i \in (Len(items) + 1)..Len(items') :
                /\ ~Tracked(items, items'[i].word_id)
                /\ items'[i].ease_factor = 250
                /\ items'[i].interval = 0
                /\ items'[i].repetitions = 0
                /\ items'[i].last_review = <<>>
                /\ items'[i].total_reviews = 0
                /\ items'[i].correct_count = 0
                /\ items'[i].incorrect_count = 0]_vars

C24_Witness ==
    /\ ret.op = "get_current_item"
    /\ ret.result # <<>>
    /\ ret.result[1] = "tau"
    /\ current_index = 1
    /\ Item("word_001").total_reviews = 1
    /\ Item("tau").total_reviews = 0

\* C25: in every state of a session correct + incorrect = cursor,
\* 0 <= cursor <= length of the queue and total = length of the queue;
\* between two start_session calls the queue does not change and the cursor
\* does not decrease, each successful submit_answer raising it by exactly 1.
C25_SessionState ==
    /\ session_stats.correct + session_stats.incorrect = current_index
    /\ current_index \in 0..Len(session_items)
    /\ session_stats.total = Len(session_items)

C25_SessionStep ==
    ret'.op # "start_session" =>
        /\ session_items' = session_items
        /\ current_index' >= current_index
        /\ (calls' # calls /\ ret'.op = "submit_answer" /\ ret'.error = "") =>
               current_index' = current_index + 1

C25_Session == []C25_SessionState /\ [][C25_SessionStep]_vars

C25_Witness ==
    /\ started
    /\ Len(session_items) = 3
    /\ current_index = 3
    /\ session_stats = [total |-> 3, correct |-> 2, incorrect |-> 1]

\* C26: the queue start_session builds never holds the same item id twice,
\* so a run through the session reviews each queued item once, and every
\* queued item below the cursor has total_reviews >= 1.
C26_NoDuplicates ==
    /\ \A j, k \in 1..Len(session_items) :
          session_items[j] = session_items[k] => j = k
    /\ \A j \in 1..current_index :
          /\ Tracked(items, session_items[j])
          /\ Item(session_items[j]).total_reviews >= 1

C26_Witness ==
    /\ session_items = <<"word_003", "word_001", "tau">>
    /\ current_index = 2
    /\ Item("word_003").total_reviews = 1
    /\ Item("word_001").total_reviews = 1
    /\ Item("tau").total_reviews = 0

\* C28: after review() of an item returned the interval d >= 1, the item is
\* absent from get_due_items() and from the due part of every start_session
\* queue until the clock is at least d days past the review; from the
\* moment it is due (the next_review that review() returned, not before
\* those d days) it stays due until its next review.
DueList ==
    LET due == GetDueItems(items, now, NoLimit)
    IN {due[j] : j \in 1..Len(due)}

TooEarly(item) ==
    /\ item.last_review # <<>>
    /\ now < FromIsoFormat(item.last_review) + item.interval * TicksPerDay

C28_AbsentThenDue ==
    LET due == DueList
    IN \A i \in 1..Len(items) :
          items[i].last_review # <<>> =>
              /\ items[i].interval >= 1
              /\ TooEarly(items[i]) => items[i].word_id \notin due
              /\ FromIsoFormat(items[i].next_review) >=
                     FromIsoFormat(items[i].last_review) + items[i].interval * TicksPerDay
              /\ now >= FromIsoFormat(items[i].next_review) => items[i].word_id \in due

C28_StaysDue ==
    /\ LET before == DueList
       IN \A i \in 1..Len(items) :
             (items[i].word_id \in before
                 /\ ~(Reviewed /\ ret'.word_id = items[i].word_id)) =>
                    \/ items'[i].next_review = <<>>
                    \/ FromIsoFormat(items'[i].next_review) <= now'
    /\ (calls' # calls /\ ret'.op = "start_session") =>
          \A i \in 1..Len(items) :
             TooEarly(items[i]) =>
                 \A j \in 1..Len(session_items') : session_items'[j] # items[i].word_id

C28_NotDueForInterval == []C28_AbsentThenDue /\ [][C28_StaysDue]_vars

C28_Witness ==
    /\ ret.op = "sleep"
    /\ \E i \in 1..Len(items) :
          /\ items[i].total_reviews = 2
          /\ items[i].interval = 1
          /\ now = FromIsoFormat(items[i].next_review)
          /\ now > FromIsoFormat(items[i].last_review) + TicksPerDay
          /\ items[i].word_id \in DueList

\* C29: with two sessions sharing one scheduler, each started once and their
\* start_session / submit_answer calls interleaved in any order, every item
\* keeps ease_factor >= 1.3 and total_reviews = correct_count +
\* incorrect_count, and the two sessions' completed counts add up to the sum
\* of total_reviews over all items, also when an item is queued in both.
C29_SharedScheduler ==
    /\ \A i \in 1..Len(items) :
          /\ items[i].ease_factor >= 130
          /\ items[i].total_reviews = items[i].correct_count + items[i].incorrect_count
    /\ current_index + other.current_index = SumField(items, "total_reviews")

C29_Witness ==
    /\ current_index = 1
    /\ other.current_index = 1
    /\ session_items[1] = "word_001"
    /\ other.session_items[1] = "word_001"
    /\ Item("word_001").total_reviews = 2
    /\ Item("word_001").correct_count = 1

\* C30: calculate_next_review computes the same transition as review: for
\* every quality in 0..5 and every item state, the (new_interval, new_ease)
\* it returns for the item's ease, interval and repetitions is the interval
\* and ease factor that review leaves on the item.
C30_SameTransition ==
    [][Reviewed /\ ret'.quality \in 0..5 =>
         LET old == ItemOf(items, ret'.word_id)
             new == ItemOf(items', ret'.word_id)
         IN <<new.interval, new.ease_factor>> \in
                CalculateNextReview(ret'.quality, old.ease_factor, old.interval,
                                    old.repetitions)]_vars

====
